---- MODULE Spec2Model ----
(***************************************************************************)
(* A model of src/scrape_rates.py (the PowerToChoose plan scraper):        *)
(* parse_csv's per-row pipeline (field lookup, parse_rate, validation,     *)
(* dedup, pricing, fine-print scan, transparency score), main's run-level  *)
(* checks and upload_to_supabase.                                          *)
(*                                                                         *)
(* Text is a sequence of one-character strings, so strip / lower /         *)
(* replace / substring search / float() are computed character by          *)
(* character as the Python code computes them.  A float is a record        *)
(* [k, v]: k = "num" with v the value in units of 10^-FracDigits, or       *)
(* k = "nan", or k = "inf" with v the sign, or k = "none" (Python None),   *)
(* or k = "err" (ValueError).  Decimal arithmetic is exact; the inputs     *)
(* are chosen so that binary rounding of a double does not decide a case.  *)
(***************************************************************************)
EXTENDS Integers, Sequences, FiniteSets, TLC

\* ------------------------------------------------------------------ bounds
\* Longest input (number of CSV records) explored.
MaxRows == 3
\* Fractional digits a numeric literal keeps (all inputs have at most 4).
FracDigits == 4

RECURSIVE Pow10(_)
Pow10(n) == IF n = 0 THEN 1 ELSE 10 * Pow10(n - 1)
\* One unit (1.0) in the fixed-point representation.
Scale == Pow10(FracDigits)
\* 0.01 in the fixed-point representation (round(x, 2) yields multiples of it).
Cent == Scale \div 100

\* ------------------------------------------------------------ characters
UpperAlpha == <<"A","B","C","D","E","F","G","H","I","J","K","L","M",
                "N","O","P","Q","R","S","T","U","V","W","X","Y","Z">>
LowerAlpha == <<"a","b","c","d","e","f","g","h","i","j","k","l","m",
                "n","o","p","q","r","s","t","u","v","w","x","y","z">>
DigitChars == <<"0","1","2","3","4","5","6","7","8","9">>
UpperSet == {UpperAlpha[k] : k \in 1..26}
LowerSet == {LowerAlpha[k] : k \in 1..26}
DigitSet == {DigitChars[k] : k \in 1..10}
LowerMap == [c \in UpperSet |-> LowerAlpha[CHOOSE k \in 1..26 : UpperAlpha[k] = c]]
UpperMap == [c \in LowerSet |-> UpperAlpha[CHOOSE k \in 1..26 : LowerAlpha[k] = c]]
DigitVal == [c \in DigitSet |-> (CHOOSE k \in 1..10 : DigitChars[k] = c) - 1]

IsSpace(c) == c \in {" ", "\t"}
IsDigit(c) == c \in DigitSet

\* ------------------------------------------------------------ str methods
\* str.lower() / str.upper()
StrLower(s) == [k \in 1..Len(s) |-> IF s[k] \in UpperSet THEN LowerMap[s[k]] ELSE s[k]]
StrUpper(s) == [k \in 1..Len(s) |-> IF s[k] \in LowerSet THEN UpperMap[s[k]] ELSE s[k]]

RECURSIVE LStrip(_)
LStrip(s) == IF s # <<>> /\ IsSpace(Head(s)) THEN LStrip(Tail(s)) ELSE s
RECURSIVE RStrip(_)
RStrip(s) == IF s # <<>> /\ IsSpace(s[Len(s)]) THEN RStrip(SubSeq(s, 1, Len(s) - 1)) ELSE s
\* str.strip()
Strip(s) == RStrip(LStrip(s))

\* s[:n]
Prefix(s, n) == SubSeq(s, 1, IF Len(s) < n THEN Len(s) ELSE n)

\* s.startswith(p) at offset k (1-based)
MatchAt(s, p, k) == k + Len(p) - 1 <= Len(s) /\ SubSeq(s, k, k + Len(p) - 1) = p
\* p in s
Contains(s, p) == \E k \in 1..(Len(s) + 1) : MatchAt(s, p, k)

\* s.replace(p, r): non-overlapping occurrences, left to right (p non-empty)
RECURSIVE Replace(_, _, _)
Replace(s, p, r) ==
    IF s = <<>> THEN <<>>
    ELSE IF MatchAt(s, p, 1) THEN r \o Replace(SubSeq(s, Len(p) + 1, Len(s)), p, r)
    ELSE <<Head(s)>> \o Replace(Tail(s), p, r)

\* s with every character of the set cs removed (chained .replace(c, ''))
RemoveChars(s, cs) == SelectSeq(s, LAMBDA c : c \notin cs)

\* The text as one TLA+ string (for f-string keys)
RECURSIVE Str(_)
Str(s) == IF s = <<>> THEN "" ELSE Head(s) \o Str(Tail(s))

\* ----------------------------------------------------------------- floats
None == [k |-> "none", v |-> 0]
Err == [k |-> "err", v |-> 0]
NaN == [k |-> "nan", v |-> 0]
Inf(sign) == [k |-> "inf", v |-> sign]
Num(x) == [k |-> "num", v |-> x]

AllDigits(s) == \A k \in 1..Len(s) : IsDigit(s[k])

\* Value of a digit string as an integer.
RECURSIVE DigitsValue(_, _)
DigitsValue(s, acc) ==
    IF s = <<>> THEN acc ELSE DigitsValue(Tail(s), 10 * acc + DigitVal[Head(s)])

\* Value of the digits after the decimal point, in units of 10^-FracDigits.
FracValue(s) ==
    LET kept == SubSeq(s, 1, IF Len(s) < FracDigits THEN Len(s) ELSE FracDigits)
    IN DigitsValue(kept, 0) * Pow10(FracDigits - Len(kept))

T_nan == <<"n","a","n">>
T_inf == <<"i","n","f">>
T_infinity == <<"i","n","f","i","n","i","t","y">>

\* A decimal literal: digits with at most one point and at least one digit.
FloatLiteral(body, sign) ==
    LET dots == {k \in 1..Len(body) : body[k] = "."}
        dot == IF dots = {} THEN Len(body) + 1 ELSE CHOOSE k \in dots : TRUE
        ip == SubSeq(body, 1, dot - 1)
        fp == SubSeq(body, dot + 1, Len(body))
    IN IF Cardinality(dots) <= 1 /\ AllDigits(ip) /\ AllDigits(fp) /\ Len(ip) + Len(fp) > 0
       THEN Num(sign * (DigitsValue(ip, 0) * Scale + FracValue(fp)))
       ELSE Err

\* nan / inf / infinity in any letter case, else a decimal literal.
FloatWord(low, body, sign) ==
    IF low = T_nan THEN NaN
    ELSE IF low = T_inf \/ low = T_infinity THEN Inf(sign)
    ELSE FloatLiteral(body, sign)

FloatUnsigned(body, sign) == FloatWord(StrLower(body), body, sign)

\* An optional sign first.
FloatStripped(s) ==
    FloatUnsigned(IF s # <<>> /\ Head(s) \in {"+", "-"} THEN Tail(s) ELSE s,
                  IF s # <<>> /\ Head(s) = "-" THEN -1 ELSE 1)

\* float(s): surrounding whitespace ignored; anything that is no literal is a
\* ValueError (Err).  Exponents and digit-group underscores are not modelled.
FloatOf(s) == FloatStripped(Strip(s))

\* Python truthiness of a float-or-None: None and 0.0 are falsy, nan is truthy.
Truthy(x) == x.k \in {"nan", "inf"} \/ (x.k = "num" /\ x.v # 0)

\* a < b and a > b on floats (every comparison with nan is False).
FLt(a, b) ==
    CASE a.k = "nan" \/ b.k = "nan" -> FALSE
      [] a.k = "inf" /\ b.k = "inf" -> a.v < b.v
      [] a.k = "inf" -> a.v < 0
      [] b.k = "inf" -> b.v > 0
      [] OTHER -> a.v < b.v
FGt(a, b) == FLt(b, a)

\* a + b, -a, a - b and a * n for an integer n > 0.
FAdd(a, b) ==
    CASE a.k = "nan" \/ b.k = "nan" -> NaN
      [] a.k = "inf" /\ b.k = "inf" -> IF a.v = b.v THEN a ELSE NaN
      [] a.k = "inf" -> a
      [] b.k = "inf" -> b
      [] OTHER -> Num(a.v + b.v)
FNeg(a) == IF a.k \in {"num", "inf"} THEN [a EXCEPT !.v = -a.v] ELSE a
FSub(a, b) == FAdd(a, FNeg(b))
FTimes(a, n) == IF a.k = "num" THEN Num(a.v * n) ELSE a

\* x / d rounded to the nearest integer, ties to even (x, d integers, d > 0).
RoundDiv(x, d) ==
    LET a == IF x < 0 THEN -x ELSE x
        q == a \div d
        r == a % d
        up == 2 * r > d \/ (2 * r = d /\ q % 2 = 1)
        m == IF up THEN q + 1 ELSE q
    IN IF x < 0 THEN -m ELSE m

\* round(x / den, 2) for an integer den > 0 (nan and inf are returned as is).
Round2(x, den) ==
    IF x.k # "num" THEN x ELSE Num(RoundDiv(x.v, den * Cent) * Cent)

\* int(x): truncation toward zero; nan raises ValueError, inf OverflowError.
IntOf(x) ==
    IF x.k # "num" THEN Err
    ELSE Num(IF x.v < 0 THEN -((-x.v) \div Scale) ELSE x.v \div Scale)

\* Two decimals c (0..99) as repr prints them after the point: 90 -> "9".
ReprCents(c) ==
    IF c % 10 = 0 THEN ToString(c \div 10) ELSE ToString(c \div 10) \o ToString(c % 10)
ReprAbs(a) == ToString(a \div Scale) \o "." \o ReprCents((a % Scale) \div Cent)

\* repr(x) of a float rounded to 2 decimals, as an f-string prints it:
\* 8.9 -> "8.9", 12.0 -> "12.0", nan -> "nan".
FloatRepr(x) ==
    IF x.k = "nan" THEN "nan"
    ELSE IF x.k = "inf" THEN (IF x.v < 0 THEN "-inf" ELSE "inf")
    ELSE IF x.v < 0 THEN "-" \o ReprAbs(-x.v) ELSE ReprAbs(x.v)

\* ------------------------------------------------------------- constants
MIN_RATE == Num(3 * Scale)
MAX_RATE == Num(50 * Scale)
MIN_TERM == 3
GOTCHA_VARIANCE_THRESHOLD == Num(3 * Scale)
\* Faulty variant: the 500 and 2000 kWh weights exchanged.
TIER_WEIGHTS_Swapped == [w500 |-> 3, w1000 |-> 5, w2000 |-> 2]
\* TIER_WEIGHTS in tenths: 0.2, 0.5, 0.3
TIER_WEIGHTS == [w500 |-> 2, w1000 |-> 5, w2000 |-> 3]

\* TDU_MAP in insertion order: <<alias, code>>
TDU_MAP == <<
    <<<<"o","n","c","o","r">>,
      <<"O","N","C","O","R">>>>,
    <<<<"o","n","c","o","r"," ","e","l","e","c","t","r","i","c"," ","d","e","l","i","v","e","r","y">>,
      <<"O","N","C","O","R">>>>,
    <<<<"c","e","n","t","e","r","p","o","i","n","t">>,
      <<"C","E","N","T","P","T">>>>,
    <<<<"c","e","n","t","e","r","p","o","i","n","t"," ","e","n","e","r","g","y">>,
      <<"C","E","N","T","P","T">>>>,
    <<<<"c","n","p">>,
      <<"C","E","N","T","P","T">>>>,
    <<<<"t","e","x","a","s","-","n","e","w"," ","m","e","x","i","c","o"," ","p","o","w","e","r">>,
      <<"T","N","M","P">>>>,
    <<<<"t","e","x","a","s","-","n","e","w"," ","m","e","x","i","c","o">>,
      <<"T","N","M","P">>>>,
    <<<<"t","n","m","p">>,
      <<"T","N","M","P">>>>,
    <<<<"a","e","p"," ","t","e","x","a","s"," ","c","e","n","t","r","a","l">>,
      <<"A","E","P","_","T","C","C">>>>,
    <<<<"a","e","p"," ","c","e","n","t","r","a","l">>,
      <<"A","E","P","_","T","C","C">>>>,
    <<<<"a","e","p"," ","t","e","x","a","s"," ","n","o","r","t","h">>,
      <<"A","E","P","_","T","N","C">>>>,
    <<<<"a","e","p"," ","n","o","r","t","h">>,
      <<"A","E","P","_","T","N","C">>>>,
    <<<<"l","u","b","b","o","c","k"," ","p","o","w","e","r">>,
      <<"L","P","L">>>>,
    <<<<"l","u","b","b","o","c","k"," ","p","o","w","e","r"," ","&"," ","l","i","g","h","t">>,
      <<"L","P","L">>>> >>

\* Leftmost element of a set of positions, 0 when there is none.
First(ks) == IF ks = {} THEN 0 ELSE CHOOSE k \in ks : \A j \in ks : k <= j

\* ------------------------------------------------------------ normalizers
\* The code of the first TDU_MAP alias (hit) contained in the label, else the
\* trimmed upper-cased label cut to 20 characters.
TduCode(hit, raw) ==
    IF hit # 0 THEN TDU_MAP[hit][2] ELSE Prefix(StrUpper(Strip(raw)), 20)
TduHit(low) == First({k \in 1..Len(TDU_MAP) : Contains(low, TDU_MAP[k][1])})

\* normalize_tdu: None (the empty text) for a falsy label.
normalize_tdu(raw) ==
    IF raw = <<>> THEN <<>> ELSE TduCode(TduHit(StrLower(Strip(raw))), raw)

\* The tail of parse_rate: a value strictly between 0 and 1 is taken as $/kWh
\* and multiplied by 100; the result is rounded to 2 decimals.
RateOfFloat(rate) ==
    IF rate.k = "err" THEN None
    ELSE IF rate.k = "num" /\ 0 < rate.v /\ rate.v < Scale THEN Round2(FTimes(rate, 100), 1)
    ELSE Round2(rate, 1)

\* parse_rate: None for empty or unparseable text.
parse_rate(val) ==
    IF val = <<>> THEN None
    ELSE RateOfFloat(FloatOf(RemoveChars(Strip(val), {"$", "¢", ","})))

TrueWords == {<<"t","r","u","e">>,
              <<"1">>,
              <<"y","e","s">>,
              <<"y">>,
              <<"t">>}

\* parse_bool
parse_bool(val) == val # <<>> /\ StrLower(Strip(val)) \in TrueWords

T_months == <<"m","o","n","t","h","s">>
T_mo == <<"m","o">>
T_credit == <<"c","r","e","d","i","t">>
T_rebate == <<"r","e","b","a","t","e">>
T_bonus == <<"b","o","n","u","s">>
T_bill_credit == <<"b","i","l","l"," ","c","r","e","d","i","t">>
T_base == <<"b","a","s","e">>
T_charge == <<"c","h","a","r","g","e">>
T_monthly == <<"m","o","n","t","h","l","y">>
T_fee == <<"f","e","e">>
T_of == <<"o","f">>
T_minimum == <<"m","i","n","i","m","u","m">>
T_usage == <<"u","s","a","g","e">>
T_less == <<"l","e","s","s">>
T_than == <<"t","h","a","n">>
T_kwh == <<"k","w","h">>
T_pass == <<"p","a","s","s">>
T_through == <<"t","h","r","o","u","g","h">>
T_var == <<"v","a","r">>
T_Fixed == <<"F","i","x","e","d">>
T_TRUE == <<"T","R","U","E">>
T_FALSE == <<"F","A","L","S","E">>

\* The TERM block: int(float(text without 'months' / 'mo')), 12 on any error.
TermOf(x) == IF x.k = "num" THEN x.v ELSE 12
ParseTerm(term_raw) ==
    TermOf(IntOf(FloatOf(Strip(Replace(Replace(Strip(term_raw), T_months, <<>>),
                                       T_mo, <<>>)))))

\* The RENEWABLE block: max(0, min(100, int(float(text without '%')))), else 0.
RenewOf(x) ==
    IF x.k # "num" THEN 0 ELSE IF x.v < 0 THEN 0 ELSE IF x.v > 100 THEN 100 ELSE x.v
ParseRenew(renew_raw) == RenewOf(IntOf(FloatOf(RemoveChars(Strip(renew_raw), {"%"}))))

\* The CANCEL FEE block: float(text without '$' and ','), else 0.
CancelOf(x) == IF x.k = "err" THEN Num(0) ELSE x
ParseCancel(cancel_raw) == CancelOf(FloatOf(RemoveChars(Strip(cancel_raw), {"$", ","})))


\* -------------------------------------------------------- fine-print scan
\* First index >= k of s that holds no digit / no whitespace / neither
\* whitespace nor '-' (Len(s) + 1 when the run reaches the end).
RECURSIVE SkipDigits(_, _)
SkipDigits(s, k) == IF k <= Len(s) /\ IsDigit(s[k]) THEN SkipDigits(s, k + 1) ELSE k
RECURSIVE SkipSpaces(_, _)
SkipSpaces(s, k) == IF k <= Len(s) /\ IsSpace(s[k]) THEN SkipSpaces(s, k + 1) ELSE k
RECURSIVE SkipSpaceDash(_, _)
SkipSpaceDash(s, k) ==
    IF k <= Len(s) /\ (IsSpace(s[k]) \/ s[k] = "-") THEN SkipSpaceDash(s, k + 1) ELSE k

\* End (exclusive) of \d+(?:\.\d{2})? matched greedily from k, the digits
\* ending at d; k itself when no digit is there.
FracEnd(s, k, d) ==
    IF d > k /\ d + 2 <= Len(s) /\ s[d] = "." /\ IsDigit(s[d + 1]) /\ IsDigit(s[d + 2])
    THEN d + 3 ELSE d
AmountEnd(s, k) == FracEnd(s, k, SkipDigits(s, k))
AmountText(s, k) == SubSeq(s, k, AmountEnd(s, k) - 1)

\* \s*word at k: the index after the word, 0 when it is not there.
WordEnd(s, w, word) == IF MatchAt(s, word, w) THEN w + Len(word) ELSE 0
AfterGap(s, k, word) == WordEnd(s, SkipSpaces(s, k), word)

\* \$(\d+(?:\.\d{2})?)\s*(?:credit|rebate|bonus|bill credit) matching at k:
\* a '$', an amount that ends at e, optional whitespace, then one of the words.
CreditWordAt(s, w) ==
    \E word \in {T_credit, T_rebate, T_bonus, T_bill_credit} : MatchAt(s, word, w)
CreditAfter(s, k, e) == s[k] = "$" /\ e > k + 1 /\ CreditWordAt(s, SkipSpaces(s, e))
CreditAt(s, k) == CreditAfter(s, k, AmountEnd(s, k + 1))
CreditCapture(s, k) == IF k = 0 THEN <<>> ELSE AmountText(s, k + 1)
\* credit_amounts[0], or the empty text
CreditAmount(s) == CreditCapture(s, First({j \in 1..Len(s) : CreditAt(s, j)}))

\* (?:base\s*charge|monthly\s*(?:charge|fee)): end (exclusive) of the phrase
\* starting at k, 0 when it does not start there.
MonthlyEnd(charge, fee) == IF charge # 0 THEN charge ELSE fee
BasePhraseEnd(s, k) ==
    IF MatchAt(s, T_base, k) THEN AfterGap(s, k + 4, T_charge)
    ELSE IF MatchAt(s, T_monthly, k)
         THEN MonthlyEnd(AfterGap(s, k + 7, T_charge), AfterGap(s, k + 7, T_fee))
    ELSE 0
\* \s*(?:of\s*)?\$? after the phrase: where the amount has to start.
SkipDollar(s, b) == IF b <= Len(s) /\ s[b] = "$" THEN b + 1 ELSE b
SkipOf(s, a) == SkipDollar(s, IF MatchAt(s, T_of, a) THEN SkipSpaces(s, a + 2) ELSE a)
BaseAmountStart(s, e) == SkipOf(s, SkipSpaces(s, e))
HasDigit(s, a) == a <= Len(s) /\ IsDigit(s[a])
BaseAfter(s, e) == e # 0 /\ HasDigit(s, BaseAmountStart(s, e))
BaseAt(s, k) == BaseAfter(s, BasePhraseEnd(s, k))
BaseCapture(s, k) ==
    IF k = 0 THEN <<>> ELSE AmountText(s, BaseAmountStart(s, BasePhraseEnd(s, k)))
\* base_charges[0], or the empty text
BaseAmount(s) == BaseCapture(s, First({j \in 1..Len(s) : BaseAt(s, j)}))

\* (?:minimum\s*usage|less\s*than)\s*(\d+)\s*kwh
MinPhraseEnd(s, k) ==
    IF MatchAt(s, T_minimum, k) THEN AfterGap(s, k + 7, T_usage)
    ELSE IF MatchAt(s, T_less, k) THEN AfterGap(s, k + 4, T_than)
    ELSE 0
KwhAfter(s, a, d) == d > a /\ MatchAt(s, T_kwh, SkipSpaces(s, d))
MinDigits(s, a) == KwhAfter(s, a, SkipDigits(s, a))
MinAfter(s, e) == e # 0 /\ MinDigits(s, SkipSpaces(s, e))
MinAt(s, k) == MinAfter(s, MinPhraseEnd(s, k))
DigitsText(s, a) == SubSeq(s, a, SkipDigits(s, a) - 1)
MinCapture(s, k) ==
    IF k = 0 THEN <<>> ELSE DigitsText(s, SkipSpaces(s, MinPhraseEnd(s, k)))
\* min_usage[0], or the empty text
MinUsageKwh(s) == MinCapture(s, First({j \in 1..Len(s) : MinAt(s, j)}))

\* pass[\s-]*through
PassThrough(s) ==
    \E k \in 1..Len(s) : MatchAt(s, T_pass, k) /\ MatchAt(s, T_through, SkipSpaceDash(s, k + 4))

\* The dict detect_rebate_flags returns; an absent amount (None) is the empty
\* text.  (Its keyword list fine_print_flags is never read by the caller.)
FlagsOf(credit, base, min_usage, pass_through) ==
    [has_rebate |-> credit # <<>>,
     rebate_amount |-> credit,
     has_base_charge |-> base # <<>>,
     base_charge_amount |-> base,
     has_min_usage_fee |-> min_usage # <<>>,
     min_usage_kwh |-> min_usage,
     has_pass_through |-> pass_through]
ScanText(combined) ==
    FlagsOf(CreditAmount(combined), BaseAmount(combined), MinUsageKwh(combined),
            PassThrough(combined))

\* detect_rebate_flags: the three texts joined by single spaces, lower-cased,
\* then the four patterns.
detect_rebate_flags(fees_details, special_terms, promo_desc) ==
    ScanText(StrLower(fees_details \o <<" ">> \o special_terms \o <<" ">> \o promo_desc))

\* ------------------------------------------------------------ row lookup
\* row.get(name): a row maps column names to text; a missing column and an
\* empty cell are both falsy and are both the empty text here.
Get(row, name) == IF name \in DOMAIN row THEN row[name] ELSE <<>>

\* row.get(a) or row.get(b) or ... or '': the first non-empty value.
RECURSIVE Lookup(_, _)
Lookup(row, names) ==
    IF names = <<>> THEN <<>>
    ELSE IF Get(row, Head(names)) # <<>> THEN Get(row, Head(names))
    ELSE Lookup(row, Tail(names))

\* value or default
Or(value, default) == IF value # <<>> THEN value ELSE default

\* -------------------------------------------------------- per-row fields
\* fees_details: MinUsageFeesCredits as detail text unless it is just
\* TRUE / FALSE / empty; special_terms stands in when there is none.
OwnDetails(raw) == IF StrUpper(raw) \in {T_TRUE, T_FALSE, <<>>} THEN <<>> ELSE raw
DetailsOr(own, special_terms) ==
    IF own = <<>> /\ special_terms # <<>> THEN special_terms ELSE own
FeesDetails(row, special_terms) ==
    DetailsOr(OwnDetails(Strip(Get(row, "MinUsageFeesCredits"))), special_terms)

\* The free texts of a row and what detect_rebate_flags finds in them.
TextsOf(fees_details, special_terms, promo_desc) ==
    [fees_details |-> fees_details,
     special_terms |-> special_terms,
     promo_desc |-> promo_desc,
     fine_print |-> detect_rebate_flags(fees_details, special_terms, promo_desc)]
TextsWith(row, special_terms) ==
    TextsOf(FeesDetails(row, special_terms), special_terms,
            Strip(Lookup(row, <<"PromotionDesc", "promotion_desc", "PromotionDescription">>)))
Texts(row) == TextsWith(row, Strip(Lookup(row, <<"SpecialTerms", "special_terms">>)))

\* Every value the loop body of parse_csv derives from one row before it
\* validates and assembles (all of them pure functions of the row).
Fields(row) ==
    [provider |-> Strip(Lookup(row, <<"RepCompany", "Company", "Provider", "rep_company">>)),
     plan_name |-> Strip(Lookup(row, <<"Product", "PlanName", "Plan Name", "plan_name">>)),
     tdu |-> normalize_tdu(Lookup(row, <<"TduCompanyName", "TDU", "tdu_company_name",
                                         "Utility">>)),
     rate_500 |-> parse_rate(Lookup(row, <<"kwh500", "Price500", "price_kwh500">>)),
     rate_1000 |-> parse_rate(Lookup(row, <<"kwh1000", "Price1000", "price_kwh1000",
                                            "Rate">>)),
     rate_2000 |-> parse_rate(Lookup(row, <<"kwh2000", "Price2000", "price_kwh2000">>)),
     term |-> ParseTerm(Or(Lookup(row, <<"TermValue", "Term", "contract_term",
                                         "ContractTerm">>), <<"1", "2">>)),
     renew |-> ParseRenew(Or(Lookup(row, <<"Renewable", "RenewablePercent", "renewable_pct",
                                           "PercentRenewable">>), <<"0">>)),
     cancel |-> ParseCancel(Or(Lookup(row, <<"CancelFee", "EarlyTermFee", "cancel_fee",
                                             "CancellationFee">>), <<"0">>)),
     rate_type |-> Strip(Or(Lookup(row, <<"RateType", "rate_type">>), T_Fixed)),
     is_prepaid |-> parse_bool(Lookup(row, <<"PrePaid", "Prepaid", "prepaid">>)),
     is_tou |-> parse_bool(Lookup(row, <<"TimeOfUse", "TOU", "time_of_use">>)),
     is_fixed |-> parse_bool(Lookup(row, <<"Fixed", "fixed">>)),
     is_new_customer |-> parse_bool(Lookup(row, <<"NewCustomer", "new_customer",
                                                  "New Customer">>)),
     is_promotion |-> parse_bool(Lookup(row, <<"Promotion", "promotion">>)),
     has_fees_credits |-> parse_bool(Lookup(row, <<"Fees/Credits", "Fees_Credits",
                                                   "fees_credits">>)),
     has_min_usage_fees_flag |-> parse_bool(Get(row, "MinUsageFeesCredits")),
     texts |-> Texts(row),
     efl_url |-> Strip(Lookup(row, <<"FactsURL", "EflUrl", "efl_url", "FactsUrl">>)),
     enroll_url |-> Strip(Lookup(row, <<"EnrollURL", "EnrollUrl", "enroll_url", "SignupURL",
                                        "GoToUrl">>)),
     terms_url |-> Strip(Lookup(row, <<"TermsURL", "TermsUrl", "terms_url">>)),
     website |-> Strip(Lookup(row, <<"Website", "website">>)),
     enroll_phone |-> Strip(Lookup(row, <<"EnrollPhone", "enroll_phone">>))]

\* ---------------------------------------------------------------- dedup
\* f"{provider}|{plan_name}|{tdu}|{rate_1000}"
DedupKey(provider, plan_name, tdu, rate_1000) ==
    Str(provider) \o "|" \o Str(plan_name) \o "|" \o Str(tdu) \o "|" \o FloatRepr(rate_1000)
KeyOf(f) == DedupKey(f.provider, f.plan_name, f.tdu, f.rate_1000)

\* ----------------------------------------------------------- validation
\* The individual tests of parse_csv's loop body.
MissingName(provider, plan_name) == provider = <<>> \/ plan_name = <<>>
RateTooLow(rate_1000) == FLt(rate_1000, MIN_RATE)
RateTooHigh(rate_1000) == FGt(rate_1000, MAX_RATE)
\* Faulty variant: the term compared with 1 instead of MIN_TERM.
TermTooShort_AgainstOne(term) == term < 1
TermTooShort(term) == term < MIN_TERM
AlreadySeen(key, seenKeys) == key \in seenKeys

\* Where the loop body leaves a row with fields f: the counter it increments
\* before `continue`, or "accept" when it reaches plans.append.
Verdict(f, seenKeys) ==
    IF MissingName(f.provider, f.plan_name) THEN "no_data"
    ELSE IF f.rate_1000.k = "none" THEN "no_data"
    ELSE IF RateTooLow(f.rate_1000) THEN "low_rate"
    ELSE IF RateTooHigh(f.rate_1000) THEN "high_rate"
    ELSE IF TermTooShort(f.term) THEN "short_term"
    ELSE IF f.tdu = <<>> THEN "no_data"
    ELSE IF AlreadySeen(KeyOf(f), seenKeys) THEN "duplicate"
    ELSE "accept"

\* -------------------------------------------------------------- pricing
\* rate_500 if rate_500 else rate_1000
Fallback(rate, rate_1000) == IF Truthy(rate) THEN rate ELSE rate_1000

\* round(r500 * 0.2 + rate_1000 * 0.5 + r2000 * 0.3, 2)
WeightedRate(r500, rate_1000, r2000) ==
    Round2(FAdd(FAdd(FTimes(r500, TIER_WEIGHTS.w500), FTimes(rate_1000, TIER_WEIGHTS.w1000)),
                FTimes(r2000, TIER_WEIGHTS.w2000)), 10)

\* max(xs) / min(xs) as Python computes them: keep the first, replace it by a
\* later element that compares greater / smaller.
RECURSIVE PyMax(_, _)
PyMax(cur, xs) ==
    IF xs = <<>> THEN cur ELSE PyMax(IF FGt(Head(xs), cur) THEN Head(xs) ELSE cur, Tail(xs))
RECURSIVE PyMin(_, _)
PyMin(cur, xs) ==
    IF xs = <<>> THEN cur ELSE PyMin(IF FLt(Head(xs), cur) THEN Head(xs) ELSE cur, Tail(xs))

\* round(max - min, 2) over the truthy tier rates, 0 with fewer than two.
SpreadOf(tier_rates) ==
    IF Len(tier_rates) >= 2
    THEN Round2(FSub(PyMax(Head(tier_rates), Tail(tier_rates)),
                     PyMin(Head(tier_rates), Tail(tier_rates))), 1)
    ELSE Num(0)
RateSpread(rate_500, rate_1000, rate_2000) ==
    SpreadOf(SelectSeq(<<rate_500, rate_1000, rate_2000>>, Truthy))

\* is_gotcha = rate_spread > GOTCHA_VARIANCE_THRESHOLD
IsGotcha(rate_spread) == FGt(rate_spread, GOTCHA_VARIANCE_THRESHOLD)

\* ------------------------------------------------- warnings and score
\* The sequence xs with x appended when the condition holds.
AppendIf(xs, cond, x) == IF cond THEN Append(xs, x) ELSE xs

\* The BUILD WARNING FLAGS block, in the order of its appends.
Warnings(f, is_gotcha) ==
    LET fp == f.texts.fine_print
        w1 == AppendIf(<<>>, is_gotcha, "price_varies_by_usage")
        w2 == AppendIf(w1, fp.has_rebate, "has_rebate_credit")
        w3 == AppendIf(w2, fp.has_base_charge, "has_base_charge")
        w4 == AppendIf(w3, fp.has_min_usage_fee \/ f.has_min_usage_fees_flag,
                       "has_min_usage_fee")
        w5 == AppendIf(w4, fp.has_pass_through, "has_pass_through")
        w6 == AppendIf(w5, f.has_fees_credits, "has_usage_fees_credits")
        w7 == AppendIf(w6, f.is_new_customer, "new_customers_only")
        w8 == AppendIf(w7, f.is_promotion, "promotional_rate")
        w9 == AppendIf(w8, f.is_prepaid, "prepaid")
        w10 == AppendIf(w9, f.is_tou, "time_of_use")
        w11 == AppendIf(w10, ~f.is_fixed /\ Contains(StrLower(f.rate_type), T_var),
                        "variable_rate")
    IN AppendIf(w11, FGt(f.cancel, Num(200 * Scale)), "high_cancel_fee")

\* Faulty variant: the score left unclamped.
ClampScore_Unclamped(t) == t
\* transparency = max(0, transparency)
ClampScore(t) == IF t < 0 THEN 0 ELSE t

\* The TRANSPARENCY SCORE block: 100 less the deduction of each red flag.
Transparency(f, is_gotcha) ==
    ClampScore(100
        - (IF is_gotcha THEN 25 ELSE 0)
        - (IF f.texts.fine_print.has_rebate THEN 20 ELSE 0)
        - (IF f.texts.fine_print.has_base_charge THEN 10 ELSE 0)
        - (IF f.texts.fine_print.has_min_usage_fee \/ f.has_min_usage_fees_flag
           THEN 15 ELSE 0)
        - (IF f.is_promotion THEN 10 ELSE 0)
        - (IF f.is_tou THEN 10 ELSE 0)
        - (IF ~f.is_fixed THEN 15 ELSE 0)
        - (IF f.is_prepaid THEN 10 ELSE 0))

\* ------------------------------------------------------------ assembly
\* The dict of plans.append for an accepted row; `now` is the reading of
\* datetime.now().  An absent optional value (None) is the empty text.
PlanOf(f, r500, r2000, rate_spread, is_gotcha, now) ==
    [provider |-> f.provider,
     plan_name |-> f.plan_name,
     tdu |-> f.tdu,
     rate_kwh |-> f.rate_1000,
     rate_kwh500 |-> r500,
     rate_kwh2000 |-> r2000,
     weighted_rate |-> WeightedRate(r500, f.rate_1000, r2000),
     term_months |-> f.term,
     renewable_pct |-> f.renew,
     cancel_fee |-> f.cancel,
     rate_type |-> f.rate_type,
     is_prepaid |-> f.is_prepaid,
     is_tou |-> f.is_tou,
     is_fixed |-> f.is_fixed,
     is_new_customer |-> f.is_new_customer,
     is_promotion |-> f.is_promotion,
     has_fees_credits |-> f.has_fees_credits,
     fees_details |-> Prefix(f.texts.fees_details, 500),
     special_terms |-> Prefix(f.texts.special_terms, 500),
     promo_desc |-> Prefix(f.texts.promo_desc, 300),
     has_rebate |-> f.texts.fine_print.has_rebate,
     rebate_amount |-> f.texts.fine_print.rebate_amount,
     has_base_charge |-> f.texts.fine_print.has_base_charge,
     base_charge_amount |-> f.texts.fine_print.base_charge_amount,
     has_min_usage_fee |-> f.texts.fine_print.has_min_usage_fee \/ f.has_min_usage_fees_flag,
     min_usage_kwh |-> f.texts.fine_print.min_usage_kwh,
     has_pass_through |-> f.texts.fine_print.has_pass_through,
     rate_spread |-> rate_spread,
     is_gotcha |-> is_gotcha,
     warnings |-> Warnings(f, is_gotcha),
     transparency_score |-> Transparency(f, is_gotcha),
     efl_url |-> f.efl_url,
     enroll_url |-> f.enroll_url,
     terms_url |-> f.terms_url,
     website |-> f.website,
     enroll_phone |-> f.enroll_phone,
     updated_at |-> now]
PlanWithSpread(f, rate_spread, now) ==
    PlanOf(f, Fallback(f.rate_500, f.rate_1000), Fallback(f.rate_2000, f.rate_1000),
           rate_spread, IsGotcha(rate_spread), now)
BuildPlan(f, now) == PlanWithSpread(f, RateSpread(f.rate_500, f.rate_1000, f.rate_2000), now)

\* ---------------------------------------------------------------- inputs
\* A record the csv reader cannot deliver: reading it raises csv.Error
\* (for instance a field longer than the reader's field size limit).
RowUnreadable == ("csv.Error" :> <<>>)
IsUnreadable(row) == "csv.Error" \in DOMAIN row
\* the worked example: three tiers given in $/kWh
RowAcme ==
    ("RepCompany" :> <<"A","c","m","e"," ","P","o","w","e","r">>) @@
    ("Product" :> <<"S","u","p","e","r","S","a","v","e","r"," ","1","2">>) @@
    ("TduCompanyName" :> <<"O","N","C","O","R"," ","E","L","E","C","T","R","I","C"," ","D","E","L","I","V","E","R","Y">>) @@
    ("kwh500" :> <<"0",".","1","5","8">>) @@
    ("kwh1000" :> <<"0",".","0","8","9">>) @@
    ("kwh2000" :> <<"0",".","1","2","1">>)
\* detail text in MinUsageFeesCredits
RowFinePrint ==
    ("RepCompany" :> <<"A","c","m","e"," ","P","o","w","e","r">>) @@
    ("Product" :> <<"S","u","p","e","r","S","a","v","e","r"," ","2","4">>) @@
    ("TduCompanyName" :> <<"O","N","C","O","R"," ","E","L","E","C","T","R","I","C"," ","D","E","L","I","V","E","R","Y">>) @@
    ("kwh500" :> <<"0",".","1","5","8">>) @@
    ("kwh1000" :> <<"0",".","0","8","9">>) @@
    ("kwh2000" :> <<"0",".","1","2","1">>) @@
    ("MinUsageFeesCredits" :> <<"B","i","l","l"," ","c","r","e","d","i","t"," ","o","f"," ","$","5","0"," ","a","p","p","l","i","e","s"," ","i","f"," ","u","s","a","g","e"," ","e","x","c","e","e","d","s"," ","1","0","0","0"," ","k","W","h",";"," ","m","i","n","i","m","u","m"," ","u","s","a","g","e"," ","f","e","e"," ","i","f"," ","u","n","d","e","r"," ","8","0","0"," ","k","W","h">>)
\* provider 'A|B', plan 'C'
RowAB_C ==
    ("RepCompany" :> <<"A","|","B">>) @@
    ("Product" :> <<"C">>) @@
    ("TduCompanyName" :> <<"O","n","c","o","r">>) @@
    ("kwh1000" :> <<"8",".","9">>) @@
    ("TermValue" :> <<"1","2">>) @@
    ("Fixed" :> <<"T","R","U","E">>)
\* provider 'A', plan 'B|C': another identity, the same joined key
RowA_BC ==
    ("RepCompany" :> <<"A">>) @@
    ("Product" :> <<"B","|","C">>) @@
    ("TduCompanyName" :> <<"O","n","c","o","r">>) @@
    ("kwh1000" :> <<"8",".","9">>) @@
    ("TermValue" :> <<"1","2">>) @@
    ("Fixed" :> <<"T","R","U","E">>)
\* RowAB_C's identity with a one-month term
RowShort ==
    ("RepCompany" :> <<"A","|","B">>) @@
    ("Product" :> <<"C">>) @@
    ("TduCompanyName" :> <<"O","n","c","o","r">>) @@
    ("kwh1000" :> <<"8",".","9">>) @@
    ("TermValue" :> <<"1">>) @@
    ("Fixed" :> <<"T","R","U","E">>)
\* a 1000 kWh rate of 2.5 cents, and short term, blank TDU
RowLow ==
    ("RepCompany" :> <<"A","c","m","e"," ","P","o","w","e","r">>) @@
    ("Product" :> <<"S","u","p","e","r","S","a","v","e","r"," ","1","2">>) @@
    ("TduCompanyName" :> <<" ">>) @@
    ("kwh500" :> <<"0",".","1","5","8">>) @@
    ("kwh1000" :> <<"2",".","5">>) @@
    ("kwh2000" :> <<"0",".","1","2","1">>) @@
    ("TermValue" :> <<"1">>)
\* a 1000 kWh rate just above MAX_RATE, and short term, no TDU
RowHigh ==
    ("RepCompany" :> <<"A","c","m","e"," ","P","o","w","e","r">>) @@
    ("Product" :> <<"S","u","p","e","r","S","a","v","e","r"," ","1","2">>) @@
    ("TduCompanyName" :> <<>>) @@
    ("kwh500" :> <<"0",".","1","5","8">>) @@
    ("kwh1000" :> <<"5","0",".","0","1">>) @@
    ("kwh2000" :> <<"0",".","1","2","1">>) @@
    ("TermValue" :> <<"2",".","9">>)
\* a 1000 kWh rate that float() reads as nan
RowNaN ==
    ("RepCompany" :> <<"A","c","m","e"," ","P","o","w","e","r">>) @@
    ("Product" :> <<"S","u","p","e","r","S","a","v","e","r"," ","1","2">>) @@
    ("TduCompanyName" :> <<"O","N","C","O","R"," ","E","L","E","C","T","R","I","C"," ","D","E","L","I","V","E","R","Y">>) @@
    ("kwh500" :> <<"0",".","1","5","8">>) @@
    ("kwh1000" :> <<"n","a","n">>) @@
    ("kwh2000" :> <<"0",".","1","2","1">>)
\* older column names; a rate of exactly MIN_RATE
RowMin ==
    ("Company" :> <<"E","d","g","e">>) @@
    ("PlanName" :> <<"F","l","o","o","r">>) @@
    ("TDU" :> <<"c","n","p">>) @@
    ("Rate" :> <<"0",".","0","3">>) @@
    ("Term" :> <<"3","6"," ","m","o","n","t","h","s">>) @@
    ("fixed" :> <<"y","e","s">>)
\* a rate of exactly MAX_RATE, the shortest accepted term, an unmapped TDU
RowMax ==
    ("RepCompany" :> <<" ","E","d","g","e"," ">>) @@
    ("Product" :> <<"C","a","p">>) @@
    ("TduCompanyName" :> <<"S","h","a","r","y","l","a","n","d"," ","U","t","i","l","i","t","i","e","s">>) @@
    ("kwh1000" :> <<"$","5","0",".","0","0">>) @@
    ("TermValue" :> <<"3">>) @@
    ("Fixed" :> <<"1">>) @@
    ("CancelFee" :> <<"$","2","5","0">>)
\* blank provider, and no rate, short term, no TDU
RowNoName ==
    ("RepCompany" :> <<" "," ">>) @@
    ("Product" :> <<"C">>) @@
    ("TduCompanyName" :> <<>>) @@
    ("kwh1000" :> <<>>) @@
    ("TermValue" :> <<"1">>)
\* unparseable rate, and short term, no TDU
RowNoRate ==
    ("RepCompany" :> <<"A","|","B">>) @@
    ("Product" :> <<"C">>) @@
    ("TduCompanyName" :> <<>>) @@
    ("kwh1000" :> <<"N","/","A">>) @@
    ("TermValue" :> <<"1">>)
\* RowAB_C with a blank TDU label
RowNoTdu ==
    ("RepCompany" :> <<"A","|","B">>) @@
    ("Product" :> <<"C">>) @@
    ("TduCompanyName" :> <<" "," ">>) @@
    ("kwh1000" :> <<"8",".","9">>) @@
    ("TermValue" :> <<"1","2">>) @@
    ("Fixed" :> <<"T","R","U","E">>)
\* a 500 kWh rate that parses to 0.0, no 2000 kWh rate
RowZero500 ==
    ("RepCompany" :> <<"A","c","m","e"," ","P","o","w","e","r">>) @@
    ("Product" :> <<"Z","e","r","o"," ","5","0","0">>) @@
    ("TduCompanyName" :> <<"O","N","C","O","R"," ","E","L","E","C","T","R","I","C"," ","D","E","L","I","V","E","R","Y">>) @@
    ("kwh500" :> <<"0">>) @@
    ("kwh1000" :> <<"0",".","0","8","9">>) @@
    ("kwh2000" :> <<>>)
\* a 500 kWh rate that float() reads as nan
RowNaN500 ==
    ("RepCompany" :> <<"A","c","m","e"," ","P","o","w","e","r">>) @@
    ("Product" :> <<"N","a","N"," ","5","0","0">>) @@
    ("TduCompanyName" :> <<"O","N","C","O","R"," ","E","L","E","C","T","R","I","C"," ","D","E","L","I","V","E","R","Y">>) @@
    ("kwh500" :> <<"n","a","n">>) @@
    ("kwh1000" :> <<"0",".","0","8","9">>) @@
    ("kwh2000" :> <<"0",".","1","2","1">>)
\* tier rates 11.9 and 8.9: a spread of exactly the threshold
RowSpread3 ==
    ("RepCompany" :> <<"A","c","m","e"," ","P","o","w","e","r">>) @@
    ("Product" :> <<"S","p","r","e","a","d"," ","3">>) @@
    ("TduCompanyName" :> <<"O","N","C","O","R"," ","E","L","E","C","T","R","I","C"," ","D","E","L","I","V","E","R","Y">>) @@
    ("kwh500" :> <<"0",".","1","1","9">>) @@
    ("kwh1000" :> <<"0",".","0","8","9">>) @@
    ("kwh2000" :> <<>>)
\* a term written '24 Months'
RowTerm24 ==
    ("RepCompany" :> <<"T","e","r","m">>) @@
    ("Product" :> <<"T","w","o"," ","y","e","a","r","s">>) @@
    ("TduCompanyName" :> <<"O","n","c","o","r">>) @@
    ("kwh1000" :> <<"8",".","9">>) @@
    ("TermValue" :> <<"2","4"," ","M","o","n","t","h","s">>) @@
    ("Fixed" :> <<"T","R","U","E">>)
\* a term written '1 month'
RowTerm1Month ==
    ("RepCompany" :> <<"T","e","r","m">>) @@
    ("Product" :> <<"O","n","e"," ","m","o","n","t","h">>) @@
    ("TduCompanyName" :> <<"O","n","c","o","r">>) @@
    ("kwh1000" :> <<"8",".","9">>) @@
    ("TermValue" :> <<"1"," ","m","o","n","t","h">>) @@
    ("Fixed" :> <<"T","R","U","E">>)
\* a negative cancel-fee text
RowNegCancel ==
    ("RepCompany" :> <<"F","e","e">>) @@
    ("Product" :> <<"N","e","g","a","t","i","v","e">>) @@
    ("TduCompanyName" :> <<"O","n","c","o","r">>) @@
    ("kwh1000" :> <<"8",".","9">>) @@
    ("TermValue" :> <<"1","2">>) @@
    ("Fixed" :> <<"T","R","U","E">>) @@
    ("CancelFee" :> <<"-","5","0">>)
\* a cancel-fee text float() rejects
RowBadCancel ==
    ("RepCompany" :> <<"F","e","e">>) @@
    ("Product" :> <<"U","n","p","a","r","s","e","a","b","l","e">>) @@
    ("TduCompanyName" :> <<"O","n","c","o","r">>) @@
    ("kwh1000" :> <<"8",".","9">>) @@
    ("TermValue" :> <<"1","2">>) @@
    ("Fixed" :> <<"T","R","U","E">>) @@
    ("CancelFee" :> <<"n","o","n","e">>)
\* not flagged Fixed, a rate type without 'var'
RowIndexed ==
    ("RepCompany" :> <<"I","d","x">>) @@
    ("Product" :> <<"I","n","d","e","x","e","d">>) @@
    ("TduCompanyName" :> <<"O","n","c","o","r">>) @@
    ("kwh1000" :> <<"8",".","9">>) @@
    ("TermValue" :> <<"1","2">>) @@
    ("Fixed" :> <<>>) @@
    ("RateType" :> <<"I","n","d","e","x","e","d">>)
\* The rows input sequences are built from.
RowPool == {RowAcme, RowAB_C, RowA_BC, RowShort, RowLow, RowNaN,
             RowUnreadable}
\* Rows explored alone: one per remaining way of being rejected or accepted.
EdgeRows == {RowFinePrint, RowHigh, RowMin, RowMax, RowNoName, RowNoRate,
              RowNoTdu, RowZero500, RowNaN500, RowSpread3, RowTerm24,
              RowTerm1Month, RowNegCancel, RowBadCancel, RowIndexed}
\* Single rows covering every combination of the conditions that feed the
\* warnings and the transparency score.
WideBase ==
    ("RepCompany" :> <<"W","i","d","e">>) @@
    ("Product" :> <<"W">>) @@
    ("TduCompanyName" :> <<"T","N","M","P">>) @@
    ("kwh1000" :> <<"0",".","0","8","9">>) @@
    ("kwh2000" :> <<"0",".","1","2","1">>)
WideRows ==
    {WideBase @@ ("Fixed" :> v_Fixed) @@ ("PrePaid" :> v_PrePaid) @@ ("TimeOfUse" :> v_TimeOfUse) @@ ("Promotion" :> v_Promotion) @@ ("MinUsageFeesCredits" :> v_MinUsageFeesCredits)
       @@ ("SpecialTerms" :> v_SpecialTerms) @@ ("kwh500" :> v_kwh500) @@ ("RateType" :> v_RateType) :
       v_Fixed \in {<<>>, <<"T","R","U","E">>},
       v_PrePaid \in {<<>>, <<"y","e","s">>},
       v_TimeOfUse \in {<<>>, <<"1">>},
       v_Promotion \in {<<>>, <<"t">>},
       v_MinUsageFeesCredits \in {<<>>, <<"T","R","U","E">>, <<"m","i","n","i","m","u","m"," ","u","s","a","g","e"," ","8","0","0"," ","k","W","h">>},
       v_SpecialTerms \in {<<>>, <<"$","5","0"," ","c","r","e","d","i","t",";"," ","b","a","s","e"," ","c","h","a","r","g","e"," ","o","f"," ","$","9",".","9","5">>},
       v_kwh500 \in {<<>>, <<"0",".","1","5","8">>},
       v_RateType \in {<<>>, <<"V","a","r","i","a","b","l","e">>}}


\* Every input explored: the sequences of at most MaxRows pool rows, and each
\* edge row and each wide row alone.
Inputs ==
    UNION {[1..n -> RowPool] : n \in 0..MaxRows} \cup {<<w>> : w \in EdgeRows \cup WideRows}

\* ----------------------------------------------------------------- state
VARIABLES
    fetched,    \* what fetch_ptc_csv returns: "text", "empty" ('') or "none" (URLError)
    csv_rows,   \* the records csv.DictReader yields for the fetched text, in order
    configured, \* whether SUPABASE_URL and SUPABASE_KEY are both set
    pc,         \* where the program is
    i,          \* 1-based position of the reader in csv_rows
    plans,      \* parse_csv's plans list
    rejected,   \* parse_csv's rejected counters
    seen,       \* parse_csv's seen set
    verdicts,   \* history: what became of each row read so far in this call
    clock,      \* the reading datetime.now() gives next
    store,      \* the rows of the Supabase plans table
    success,    \* upload_to_supabase's success counter
    batch_at,   \* upload_to_supabase's batch offset (the i of its range loop)
    ret,        \* upload_to_supabase's return value ("unset" before it returns)
    exitCode,   \* the process exit status (-1 while running)
    run,        \* how many times parse_csv has been called in this process
    prev        \* what the previous parse_csv call returned and counted

vars == <<fetched, csv_rows, configured, pc, i, plans, rejected, seen, verdicts,
          clock, store, success, batch_at, ret, exitCode, run, prev>>

NoRejections ==
    [low_rate |-> 0, high_rate |-> 0, short_term |-> 0, no_data |-> 0, duplicate |-> 0]

\* json.dumps(warnings) if warnings else '[]'
RECURSIVE JoinQuoted(_)
JoinQuoted(w) ==
    IF w = <<>> THEN ""
    ELSE "\"" \o Head(w) \o "\"" \o (IF Tail(w) = <<>> THEN "" ELSE ", ") \o JoinQuoted(Tail(w))
JsonDumps(w) == "[" \o JoinQuoted(w) \o "]"
Serialized(ps) == [k \in 1..Len(ps) |-> [ps[k] EXCEPT !.warnings = JsonDumps(@)]]

\* The table as an earlier run left it.
OldSnapshot == Serialized(<<BuildPlan(Fields(RowMin), 0)>>)

\* Rows per insert request.
BATCH == 50

Init ==
    /\ fetched \in {"text", "empty", "none"}
    /\ csv_rows \in (IF fetched = "text" THEN Inputs ELSE {<<>>})
    /\ configured \in BOOLEAN
    /\ pc = "main"
    /\ i = 0
    /\ plans = <<>>
    /\ rejected = NoRejections
    /\ seen = {}
    /\ verdicts = <<>>
    /\ clock = 1
    /\ store = OldSnapshot
    /\ success = 0
    /\ batch_at = 0
    /\ ret = "unset"
    /\ exitCode = -1
    /\ run = 0
    /\ prev = [plans |-> <<>>, rejected |-> NoRejections]

\* -------------------------------------------------------------- parse_csv
\* main: csv_text = fetch_ptc_csv(); if not csv_text: sys.exit(1)
Fetch ==
    /\ pc = "main"
    /\ IF fetched = "text"
       THEN pc' = "parse_csv" /\ exitCode' = exitCode
       ELSE pc' = "exit" /\ exitCode' = 1
    /\ UNCHANGED <<fetched, csv_rows, configured, i, plans, rejected, seen, verdicts,
                   clock, store, success, batch_at, ret, run, prev>>

\* Faulty variant: the seen set outlives the call (a module-level set).
ParseCsvBegin_KeepSeen ==
    /\ pc = "parse_csv"
    /\ plans' = <<>>
    /\ rejected' = NoRejections
    /\ verdicts' = <<>>
    /\ i' = 1
    /\ run' = run + 1
    /\ pc' = "loop"
    /\ UNCHANGED <<fetched, csv_rows, configured, seen, clock, store, success, batch_at,
                   ret, exitCode, prev>>

\* parse_csv's locals as it enters its loop.
ParseCsvBegin ==
    /\ pc = "parse_csv"
    /\ plans' = <<>>
    /\ rejected' = NoRejections
    /\ seen' = {}
    /\ verdicts' = <<>>
    /\ i' = 1
    /\ run' = run + 1
    /\ pc' = "loop"
    /\ UNCHANGED <<fetched, csv_rows, configured, clock, store, success, batch_at, ret,
                   exitCode, prev>>

\* `for row in reader` raises: nothing in parse_csv or main catches it, the
\* interpreter prints the traceback and exits with status 1.
ReadError ==
    /\ pc = "loop"
    /\ i <= Len(csv_rows)
    /\ IsUnreadable(csv_rows[i])
    /\ pc' = "crash"
    /\ exitCode' = 1
    /\ verdicts' = Append(verdicts, "raised")
    /\ UNCHANGED <<fetched, csv_rows, configured, i, plans, rejected, seen, clock, store,
                   success, batch_at, ret, run, prev>>

\* Faulty variant: a rejection that is not counted.
Reject_Uncounted(v) ==
    /\ v # "accept"
    /\ rejected' = rejected
    /\ verdicts' = Append(verdicts, v)
\* One pass of the loop body over a row with fields f that ends in
\* `rejected[...] += 1; continue`.
Reject(v) ==
    /\ v # "accept"
    /\ rejected' = [rejected EXCEPT ![v] = @ + 1]
    /\ verdicts' = Append(verdicts, v)
\* Faulty variant: a rejected row is remembered in the seen set all the same.
RejectRemembering(f) ==
    /\ Reject(Verdict(f, seen))
    /\ seen' = seen \cup {KeyOf(f)}
RejectRow_Remembers ==
    /\ pc = "loop"
    /\ i <= Len(csv_rows)
    /\ ~IsUnreadable(csv_rows[i])
    /\ RejectRemembering(Fields(csv_rows[i]))
    /\ i' = i + 1
    /\ UNCHANGED <<fetched, csv_rows, configured, pc, plans, clock, store, success,
                   batch_at, ret, exitCode, run, prev>>
RejectRow ==
    /\ pc = "loop"
    /\ i <= Len(csv_rows)
    /\ ~IsUnreadable(csv_rows[i])
    /\ Reject(Verdict(Fields(csv_rows[i]), seen))
    /\ i' = i + 1
    /\ UNCHANGED <<fetched, csv_rows, configured, pc, plans, seen, clock, store, success,
                   batch_at, ret, exitCode, run, prev>>

\* One pass of the loop body over a row with fields f that reaches seen.add
\* and plans.append.
Accept(f) ==
    /\ Verdict(f, seen) = "accept"
    /\ seen' = seen \cup {KeyOf(f)}
    /\ plans' = Append(plans, BuildPlan(f, clock))
AcceptRow ==
    /\ pc = "loop"
    /\ i <= Len(csv_rows)
    /\ ~IsUnreadable(csv_rows[i])
    /\ Accept(Fields(csv_rows[i]))
    /\ clock' = clock + 1
    /\ verdicts' = Append(verdicts, "accept")
    /\ i' = i + 1
    /\ UNCHANGED <<fetched, csv_rows, configured, pc, rejected, store, success, batch_at,
                   ret, exitCode, run, prev>>

\* The reader is exhausted: parse_csv prints its summary and returns plans.
ParseCsvReturn ==
    /\ pc = "loop"
    /\ i > Len(csv_rows)
    /\ pc' = "returned"
    /\ UNCHANGED <<fetched, csv_rows, configured, i, plans, rejected, seen, verdicts,
                   clock, store, success, batch_at, ret, exitCode, run, prev>>

\* ------------------------------------------------------------------ main
\* Faulty variant: main goes on to the upload whatever parse_csv returned.
MainCheck_NoGuard ==
    /\ pc = "returned"
    /\ pc' = "upload"
    /\ UNCHANGED <<fetched, csv_rows, configured, i, plans, rejected, seen, verdicts,
                   clock, store, success, batch_at, ret, exitCode, run, prev>>

\* main: if not plans: sys.exit(1); otherwise the analysis (prints only) and
\* the call of upload_to_supabase.
MainCheck ==
    /\ pc = "returned"
    /\ IF plans = <<>>
       THEN pc' = "exit" /\ exitCode' = 1
       ELSE pc' = "upload" /\ exitCode' = exitCode
    /\ UNCHANGED <<fetched, csv_rows, configured, i, plans, rejected, seen, verdicts,
                   clock, store, success, batch_at, ret, run, prev>>

\* upload_to_supabase without credentials: sample output, return False; main
\* then prints its last lines and ends.
UploadUnconfigured ==
    /\ pc = "upload"
    /\ ~configured
    /\ ret' = "False"
    /\ pc' = "done"
    /\ exitCode' = 0
    /\ UNCHANGED <<fetched, csv_rows, configured, i, plans, rejected, seen, verdicts,
                   clock, store, success, batch_at, run, prev>>

\* The DELETE request (an exception is only printed), then the warnings of
\* every plan serialized in place, then success = 0.
UploadDelete ==
    /\ pc = "upload"
    /\ configured
    /\ \E deleted \in BOOLEAN : store' = IF deleted THEN <<>> ELSE store
    /\ plans' = Serialized(plans)
    /\ success' = 0
    /\ batch_at' = 0
    /\ pc' = "insert"
    /\ UNCHANGED <<fetched, csv_rows, configured, i, rejected, seen, verdicts, clock, ret,
                   exitCode, run, prev>>

\* One POST of plans[i:i+50]: counted when the answer is 200/201/204; stored
\* but not counted when the answer is another 2xx or is lost; or refused.
UploadInsert ==
    /\ pc = "insert"
    /\ batch_at < Len(plans)
    /\ LET last == IF batch_at + BATCH < Len(plans) THEN batch_at + BATCH ELSE Len(plans)
           batch == SubSeq(plans, batch_at + 1, last)
       IN \E outcome \in {"counted", "uncounted", "refused"} :
            /\ store' = IF outcome = "refused" THEN store ELSE store \o batch
            /\ success' = IF outcome = "counted" THEN success + Len(batch) ELSE success
    /\ batch_at' = batch_at + BATCH
    /\ UNCHANGED <<fetched, csv_rows, configured, pc, i, plans, rejected, seen, verdicts,
                   clock, ret, exitCode, run, prev>>

\* return success > 0; main ignores the value, prints and ends.
UploadReturn ==
    /\ pc = "insert"
    /\ batch_at >= Len(plans)
    /\ ret' = IF success > 0 THEN "True" ELSE "False"
    /\ pc' = "done"
    /\ exitCode' = 0
    /\ UNCHANGED <<fetched, csv_rows, configured, i, plans, rejected, seen, verdicts,
                   clock, store, success, batch_at, run, prev>>

Next ==
    \/ Fetch
    \/ ParseCsvBegin
    \/ ReadError
    \/ RejectRow
    \/ AcceptRow
    \/ ParseCsvReturn
    \/ MainCheck
    \/ UploadUnconfigured
    \/ UploadDelete
    \/ UploadInsert
    \/ UploadReturn

Spec == Init /\ [][Next]_vars

\* ------------------------------------------------- calling parse_csv twice
\* A caller that holds the fetched text and calls parse_csv a second time in
\* the same process, keeping what the first call returned.
InitTwice ==
    /\ fetched = "text"
    /\ csv_rows \in Inputs
    /\ configured = FALSE
    /\ pc = "parse_csv"
    /\ i = 0
    /\ plans = <<>>
    /\ rejected = NoRejections
    /\ seen = {}
    /\ verdicts = <<>>
    /\ clock = 1
    /\ store = OldSnapshot
    /\ success = 0
    /\ batch_at = 0
    /\ ret = "unset"
    /\ exitCode = -1
    /\ run = 0
    /\ prev = [plans |-> <<>>, rejected |-> NoRejections]

CallAgain ==
    /\ pc = "returned"
    /\ run = 1
    /\ prev' = [plans |-> plans, rejected |-> rejected]
    /\ pc' = "parse_csv"
    /\ UNCHANGED <<fetched, csv_rows, configured, i, plans, rejected, seen, verdicts,
                   clock, store, success, batch_at, ret, exitCode, run>>

NextTwice ==
    \/ ParseCsvBegin
    \/ ReadError
    \/ RejectRow
    \/ AcceptRow
    \/ ParseCsvReturn
    \/ CallAgain

SpecTwice == InitTwice /\ [][NextTwice]_vars

\* ---------------------------------------------------------------- claims
\* n hundredths as a float: Cents(890) is 8.9
Cents(n) == Num(n * Cent)
Range(s) == {s[k] : k \in 1..Len(s)}
\* The rows read so far in this call, and those of them that were accepted.
Read == 1..Len(verdicts)
Accepted == {k \in Read : verdicts[k] = "accept"}
\* The plan appended for the accepted row k.
PlanIndex(k) == Cardinality({j \in Accepted : j <= k})
PlanFor(k) == plans[PlanIndex(k)]
\* parse_csv is running or has returned and nothing has touched plans since.
InParse == pc \in {"loop", "returned", "crash"}
\* The identity the specification gives a plan or a row.
Identity(x) == <<x.provider, x.plan_name, x.tdu, x.rate_1000>>
PlanIdentity(p) == <<p.provider, p.plan_name, p.tdu, p.rate_kwh>>
\* a >= b, a <= b on floats
FGe(a, b) == a.k # "nan" /\ b.k # "nan" /\ ~FLt(a, b)
FLe(a, b) == a.k # "nan" /\ b.k # "nan" /\ ~FLt(b, a)

\* C1: every emitted plan has a 1000 kWh rate that is a number with
\* MIN_RATE <= rate <= MAX_RATE, and a named row whose parsed rate is 2.5 is
\* counted under low_rate and emits no plan.
C1_RateBound ==
    /\ \A k \in 1..Len(plans) :
         /\ plans[k].rate_kwh.k = "num"
         /\ FGe(plans[k].rate_kwh, MIN_RATE)
         /\ FLe(plans[k].rate_kwh, MAX_RATE)
    /\ InParse => \A k \in Read :
         (/\ ~IsUnreadable(csv_rows[k])
          /\ Fields(csv_rows[k]).rate_1000 = Cents(250)
          /\ ~MissingName(Fields(csv_rows[k]).provider, Fields(csv_rows[k]).plan_name))
         => verdicts[k] = "low_rate"

\* C2: no two emitted plans share (provider, plan_name, tdu, rate_1000); of
\* two rows with the same identity that both pass the checks before the
\* duplicate check, the later is counted as duplicate and the first row of
\* that identity is in the output.
PassesEarlierChecks(f) == Verdict(f, {}) = "accept"
SameIdentityPair(j, k) ==
    /\ j < k
    /\ ~IsUnreadable(csv_rows[j])
    /\ ~IsUnreadable(csv_rows[k])
    /\ Identity(Fields(csv_rows[j])) = Identity(Fields(csv_rows[k]))
    /\ PassesEarlierChecks(Fields(csv_rows[j]))
    /\ PassesEarlierChecks(Fields(csv_rows[k]))
C2_UniqueFirstWins ==
    /\ \A j, k \in 1..Len(plans) :
         j < k => PlanIdentity(plans[j]) # PlanIdentity(plans[k])
    /\ InParse => \A j, k \in Read :
         SameIdentityPair(j, k) =>
            /\ verdicts[k] = "duplicate"
            /\ (~(\E h \in Read : SameIdentityPair(h, j)) => verdicts[j] = "accept")

\* C3: every emitted plan's transparency_score is an integer from 0 to 100.
C3_ScoreBound ==
    \A k \in 1..Len(plans) : plans[k].transparency_score \in 0..100
\* A plan that triggers all eight deductions (115 points) and scores 0.
C3_Witness ==
    \E k \in 1..Len(plans) :
        /\ plans[k].transparency_score = 0
        /\ plans[k].is_gotcha /\ plans[k].has_rebate /\ plans[k].has_base_charge
        /\ plans[k].has_min_usage_fee /\ plans[k].is_promotion /\ plans[k].is_tou
        /\ ~plans[k].is_fixed /\ plans[k].is_prepaid

\* C4: every emitted plan has term_months >= MIN_TERM, and a row that passes
\* the name and rate checks with a term (12 when unparseable) below MIN_TERM is
\* counted under short_term and emits no plan.
ReachesTermCheck(f) ==
    /\ ~MissingName(f.provider, f.plan_name)
    /\ f.rate_1000.k # "none"
    /\ ~RateTooLow(f.rate_1000)
    /\ ~RateTooHigh(f.rate_1000)
C4_TermBound ==
    /\ \A k \in 1..Len(plans) : plans[k].term_months >= MIN_TERM
    /\ InParse => \A k \in Read :
         (/\ ~IsUnreadable(csv_rows[k])
          /\ ReachesTermCheck(Fields(csv_rows[k]))
          /\ Fields(csv_rows[k]).term < MIN_TERM)
         => verdicts[k] = "short_term"
\* A returned call that rejected a one-month row and emitted a plan of the
\* shortest accepted term.
C4_Witness ==
    /\ pc = "returned"
    /\ \E k \in Read : verdicts[k] = "short_term" /\ Fields(csv_rows[k]).term = 1
    /\ \E k \in 1..Len(plans) : plans[k].term_months >= MIN_TERM

\* C5: a second parse_csv call on the same input in the same process returns
\* the same plans, but for updated_at, and the same rejection counts.
Untimed(ps) == [k \in 1..Len(ps) |-> [ps[k] EXCEPT !.updated_at = 0]]
C5_Idempotent ==
    (pc = "returned" /\ run = 2) =>
        /\ Untimed(plans) = Untimed(prev.plans)
        /\ rejected = prev.rejected
\* A second call has returned a plan stamped later than the first call's, and
\* each call counted a duplicate.
C5_Witness ==
    /\ pc = "returned" /\ run = 2
    /\ plans # <<>>
    /\ plans[1].updated_at # prev.plans[1].updated_at
    /\ rejected.duplicate > 0

\* C6: each row is counted under the bucket of the first check it fails, the
\* checks taken in the order (1) provider and plan_name non-empty, (2)
\* rate_1000 present, (3) rate_1000 >= MIN_RATE, (4) rate_1000 <= MAX_RATE,
\* (5) term_months >= MIN_TERM, (6) TDU non-empty, (7) identity not already
\* seen; a row failing none is emitted; and the next row is then processed.
FirstFailing(f, identities) ==
    IF f.provider = <<>> \/ f.plan_name = <<>> THEN "no_data"
    ELSE IF f.rate_1000.k = "none" THEN "no_data"
    ELSE IF ~FGe(f.rate_1000, MIN_RATE) THEN "low_rate"
    ELSE IF ~FLe(f.rate_1000, MAX_RATE) THEN "high_rate"
    ELSE IF ~(f.term >= MIN_TERM) THEN "short_term"
    ELSE IF f.tdu = <<>> THEN "no_data"
    ELSE IF Identity(f) \in identities THEN "duplicate"
    ELSE "accept"
IdentitiesBefore(k) == {PlanIdentity(plans[PlanIndex(j)]) : j \in {a \in Accepted : a < k}}
C6_CheckOrder ==
    InParse => \A k \in Read :
        ~IsUnreadable(csv_rows[k]) =>
            /\ verdicts[k] = FirstFailing(Fields(csv_rows[k]), IdentitiesBefore(k))
            /\ i > k

\* C7: a record whose processing raises is counted under an "exception"
\* bucket and skipped, and the run goes on with the records after it.
C7_ExceptionSkipped ==
    \A k \in Read :
        verdicts[k] = "raised" =>
            /\ pc # "crash"
            /\ i > k
            /\ "exception" \in DOMAIN rejected
            /\ rejected["exception"] > 0

\* C8: a run that fetched no records, or in which no record survived, ends
\* with a non-zero exit status without upload_to_supabase having been called
\* (the table is as it was); the upload is only reached with a plan to store.
NoSurvivor == \A k \in Read : verdicts[k] # "accept"
C8_NoEmptyPublish ==
    /\ pc \in {"upload", "insert", "done"} => ~NoSurvivor
    /\ (pc \in {"exit", "done"} /\ NoSurvivor) =>
          /\ pc = "exit"
          /\ exitCode = 1
          /\ ret = "unset"
          /\ store = OldSnapshot
\* A run over records none of which survived has exited.
C8_Witness ==
    /\ pc = "exit"
    /\ csv_rows # <<>>
    /\ Len(verdicts) = Len(csv_rows)
    /\ NoSurvivor

\* C9 as stated: the plan emitted for the worked-example row has tdu ONCOR,
\* rates 15.8 / 8.9 / 12.1, spread 6.9, is_gotcha, the warning
\* price_varies_by_usage, and weighted_rate 11.64.
ExamplePlan(p, weighted) ==
    /\ p.tdu = <<"O","N","C","O","R">>
    /\ p.rate_kwh500 = Cents(1580)
    /\ p.rate_kwh = Cents(890)
    /\ p.rate_kwh2000 = Cents(1210)
    /\ p.rate_spread = Cents(690)
    /\ p.is_gotcha
    /\ "price_varies_by_usage" \in Range(p.warnings)
    /\ p.weighted_rate = weighted
ExampleRows == {k \in Accepted : csv_rows[k] = RowAcme}
C9_AsStated ==
    InParse => \A k \in ExampleRows : ExamplePlan(PlanFor(k), Cents(1164))
\* C9 amended: the same, with weighted_rate 15.8*0.2 + 8.9*0.5 + 12.1*0.3 = 11.24.
C9_Example ==
    InParse => \A k \in ExampleRows : ExamplePlan(PlanFor(k), Cents(1124))
\* The worked-example row has been accepted.
C9_Witness == pc = "returned" /\ ExampleRows # {}

\* C10: the plan emitted for a row whose MinUsageFeesCredits holds the text
\* below has has_rebate with rebate_amount "50" and has_min_usage_fee with
\* min_usage_kwh "800".
BillCreditText == <<"B","i","l","l"," ","c","r","e","d","i","t"," ","o","f",
    " ","$","5","0"," ","a","p","p","l","i","e","s"," ","i","f"," ","u","s",
    "a","g","e"," ","e","x","c","e","e","d","s"," ","1","0","0","0"," ","k",
    "W","h",";"," ","m","i","n","i","m","u","m"," ","u","s","a","g","e"," ",
    "f","e","e"," ","i","f"," ","u","n","d","e","r"," ","8","0","0"," ","k",
    "W","h">>
C10_FinePrintExample ==
    InParse => \A k \in Accepted :
        Get(csv_rows[k], "MinUsageFeesCredits") = BillCreditText =>
            /\ PlanFor(k).has_rebate
            /\ PlanFor(k).rebate_amount = <<"5", "0">>
            /\ PlanFor(k).has_min_usage_fee
            /\ PlanFor(k).min_usage_kwh = <<"8", "0", "0">>

\* C11: rate_spread is the largest minus the smallest of the tier rates that
\* are present (0 with fewer than two present), is_gotcha holds exactly when
\* rate_spread > GOTCHA_VARIANCE_THRESHOLD, and a plan whose rate_500 and
\* rate_2000 are absent has rate_spread 0, is not a gotcha, and carries
\* rate_1000 in all three emitted tiers.  A rate is absent when its text is
\* empty or does not parse.
IsPresent(x) == x.k # "none"
AllNum(xs) == \A k \in 1..Len(xs) : xs[k].k = "num"
Values(xs) == {xs[k].v : k \in 1..Len(xs)}
Largest(S) == CHOOSE m \in S : \A x \in S : x <= m
Smallest(S) == CHOOSE m \in S : \A x \in S : m <= x
SpreadClaimed(xs) ==
    IF Len(xs) >= 2 THEN Num(Largest(Values(xs)) - Smallest(Values(xs))) ELSE Num(0)
AboveThreshold(x) == (x.k = "num" /\ x.v > 3 * Scale) \/ (x.k = "inf" /\ x.v > 0)
SpreadAsClaimed(f, tiers, p) ==
    /\ AllNum(tiers) => p.rate_spread = SpreadClaimed(tiers)
    /\ p.is_gotcha <=> AboveThreshold(p.rate_spread)
    /\ (f.rate_500 = None /\ f.rate_2000 = None) =>
          /\ p.rate_spread = Num(0)
          /\ ~p.is_gotcha
          /\ p.rate_kwh500 = p.rate_kwh
          /\ p.rate_kwh2000 = p.rate_kwh
PresentTiers(f) == SelectSeq(<<f.rate_500, f.rate_1000, f.rate_2000>>, IsPresent)
SpreadOfRow(f, p) == SpreadAsClaimed(f, PresentTiers(f), p)
C11_SpreadOfPresent ==
    InParse => \A k \in Accepted : SpreadOfRow(Fields(csv_rows[k]), PlanFor(k))

\* C12: once upload_to_supabase has returned True the table holds exactly the
\* plans of this run: nothing of the earlier snapshot and every new plan.
C12_SnapshotReplaced == ret = "True" => store = plans

\* C13: transparency_score is 100 less the penalties of the conditions the
\* plan triggers (gotcha 25, rebate 20, base charge 10, minimum-usage fee 15,
\* promotional 10, time-of-use 10, non-fixed rate type 15, prepaid 10), not
\* below 0; the non-fixed penalty applies exactly when the plan's rate_type
\* is not fixed; a plan triggering nothing scores 100.
Penalty(cond, points) == IF cond THEN points ELSE 0
ScoreClaimed(p, non_fixed) ==
    LET t == 100 - Penalty(p.is_gotcha, 25) - Penalty(p.has_rebate, 20)
                 - Penalty(p.has_base_charge, 10) - Penalty(p.has_min_usage_fee, 15)
                 - Penalty(p.is_promotion, 10) - Penalty(p.is_tou, 10)
                 - Penalty(non_fixed, 15) - Penalty(p.is_prepaid, 10)
    IN IF t < 0 THEN 0 ELSE IF t > 100 THEN 100 ELSE t
RateTypeNotFixed(p) == StrLower(Strip(p.rate_type)) # <<"f", "i", "x", "e", "d">>
C13_ScoreFormula ==
    \A k \in 1..Len(plans) :
        plans[k].transparency_score = ScoreClaimed(plans[k], RateTypeNotFixed(plans[k]))

\* C14: the term of a row is the integer written by the digits of its term
\* text, every other character dropped, and 12 when that leaves nothing to
\* parse; so "24 Months" is a term of 24, and "1 month" is a term of 1, whose
\* row is counted under short_term when it gets as far as the term check.
TermText(row) ==
    Or(Lookup(row, <<"TermValue", "Term", "contract_term", "ContractTerm">>), <<"1", "2">>)
TermClaimed(text) ==
    IF SelectSeq(text, IsDigit) = <<>> THEN 12 ELSE DigitsValue(SelectSeq(text, IsDigit), 0)
TermAsClaimed(f, claimed, v) ==
    /\ f.term = claimed
    /\ (ReachesTermCheck(f) /\ claimed < MIN_TERM) => v = "short_term"
C14_TermDigits ==
    InParse => \A k \in Read :
        ~IsUnreadable(csv_rows[k]) =>
            TermAsClaimed(Fields(csv_rows[k]), TermClaimed(TermText(csv_rows[k])), verdicts[k])

\* C15: weighted_rate is rate_500*0.2 + rate_1000*0.5 + rate_2000*0.3 of the
\* emitted tier rates, rounded to the cent (at most half a cent from the exact
\* sum); an absent rate_500 or rate_2000 is emitted as rate_1000; with both
\* absent weighted_rate is rate_1000; and weighted_rate lies between the
\* smallest and the largest of the three emitted tier rates.
Distance(a, b) == IF a < b THEN b - a ELSE a - b
EmittedTiers(p) == <<p.rate_kwh500, p.rate_kwh, p.rate_kwh2000>>
WeightedOfTiers(w, tiers) ==
    /\ w.k # "nan"
    /\ \A k \in 1..3 : tiers[k].k # "nan"
    /\ (w.k = "num" /\ AllNum(tiers)) =>
          /\ w.v % Cent = 0
          /\ Distance(10 * w.v, 2 * tiers[1].v + 5 * tiers[2].v + 3 * tiers[3].v) <= 5 * Cent
          /\ Smallest(Values(tiers)) <= w.v
          /\ w.v <= Largest(Values(tiers))
WeightedAsClaimed(f, p) ==
    /\ WeightedOfTiers(p.weighted_rate, EmittedTiers(p))
    /\ f.rate_500 = None => p.rate_kwh500 = p.rate_kwh
    /\ f.rate_2000 = None => p.rate_kwh2000 = p.rate_kwh
    /\ (f.rate_500 = None /\ f.rate_2000 = None) => p.weighted_rate = p.rate_kwh
C15_WeightedRate ==
    InParse => \A k \in Accepted : WeightedAsClaimed(Fields(csv_rows[k]), PlanFor(k))

\* C16: the cancel_fee of every emitted plan is a number not below 0, and is
\* 0 when the row has no cancel-fee text or one without any digit to parse.
CancelText(row) ==
    Lookup(row, <<"CancelFee", "EarlyTermFee", "cancel_fee", "CancellationFee">>)
CancelAsClaimed(text, fee) ==
    /\ fee.k = "num"
    /\ fee.v >= 0
    /\ SelectSeq(text, IsDigit) = <<>> => fee = Num(0)
C16_CancelFee ==
    InParse => \A k \in Accepted : CancelAsClaimed(CancelText(csv_rows[k]), PlanFor(k).cancel_fee)

\* C17: while parse_csv runs and once it has returned, the plans emitted plus
\* the five rejection counters add up to the rows processed (all N of them at
\* the return); and each pass of the loop over a row either appends one plan
\* and leaves the counters alone, or adds 1 to one counter and leaves the
\* plans alone.
Total(r) == r.low_rate + r.high_rate + r.short_term + r.no_data + r.duplicate
Buckets == {"low_rate", "high_rate", "short_term", "no_data", "duplicate"}
Conserved ==
    InParse =>
        /\ DOMAIN rejected = Buckets
        /\ Len(plans) + Total(rejected) = i - 1
        /\ pc = "returned" => i - 1 = Len(csv_rows)
OnePlanOrOneCount ==
    (pc = "loop" /\ i' = i + 1) =>
        \/ /\ Len(plans') = Len(plans) + 1
           /\ SubSeq(plans', 1, Len(plans)) = plans
           /\ rejected' = rejected
        \/ /\ plans' = plans
           /\ \E b \in Buckets : rejected' = [rejected EXCEPT ![b] = @ + 1]
C17_Conservation == []Conserved /\ [][OnePlanOrOneCount]_vars
\* A call over three rows has returned with a plan and two different counters
\* raised.
C17_Witness ==
    /\ pc = "returned"
    /\ Len(csv_rows) = 3
    /\ Len(plans) = 1
    /\ rejected.duplicate = 1
    /\ rejected.short_term = 1

\* C18: a plan that scores below 100 has a warning, and every condition that
\* deducts points has put its tag among the plan's warnings.
Tagged(p, cond, tag) == cond => tag \in Range(p.warnings)
WarnedOfDeductions(p) ==
    /\ p.transparency_score < 100 => p.warnings # <<>>
    /\ Tagged(p, p.is_gotcha, "price_varies_by_usage")
    /\ Tagged(p, p.has_rebate, "has_rebate_credit")
    /\ Tagged(p, p.has_base_charge, "has_base_charge")
    /\ Tagged(p, p.has_min_usage_fee, "has_min_usage_fee")
    /\ Tagged(p, p.is_promotion, "promotional_rate")
    /\ Tagged(p, p.is_tou, "time_of_use")
    /\ Tagged(p, ~p.is_fixed, "variable_rate")
    /\ Tagged(p, p.is_prepaid, "prepaid")
C18_ScoreWarnings ==
    InParse => \A k \in 1..Len(plans) : WarnedOfDeductions(plans[k])

\* C19: a pass of the loop that rejects a row leaves the seen set and the
\* plans as they were; so a row that passes the checks is accepted when the
\* rows before it were all rejected, one of them, with its identity, for
\* short_term; and the plans are in the order of the rows they come from.
RejectionIsLocal ==
    (pc = "loop" /\ rejected' # rejected) => (seen' = seen /\ plans' = plans)
ShortTermTwin(j, k) ==
    /\ j < k
    /\ verdicts[j] = "short_term"
    /\ Identity(Fields(csv_rows[j])) = Identity(Fields(csv_rows[k]))
    /\ PassesEarlierChecks(Fields(csv_rows[k]))
AcceptedAfterRejections ==
    InParse => \A j, k \in Read :
        (/\ \A h \in 1..(k - 1) : verdicts[h] \notin {"accept", "raised"}
         /\ verdicts[k] # "raised"
         /\ ShortTermTwin(j, k)) => verdicts[k] = "accept"
InInputOrder ==
    InParse =>
        /\ Len(plans) = Cardinality(Accepted)
        /\ \A k \in Accepted : PlanIdentity(PlanFor(k)) = Identity(Fields(csv_rows[k]))
C19_RejectionLocal ==
    /\ [][RejectionIsLocal]_vars
    /\ []AcceptedAfterRejections
    /\ []InInputOrder
\* A row rejected for short_term, then the same identity accepted, and a
\* second plan after it.
C19_Witness ==
    /\ pc = "returned"
    /\ Len(verdicts) = 3
    /\ verdicts[1] = "short_term"
    /\ verdicts[2] = "accept"
    /\ verdicts[3] = "accept"
    /\ Identity(Fields(csv_rows[1])) = Identity(Fields(csv_rows[2]))

\* C20: a row counted under duplicate has an earlier accepted row of the same
\* call with the same provider, plan_name, tdu and rate_1000.
HasAcceptedTwin(k) ==
    \E j \in Accepted : j < k /\ PlanIdentity(PlanFor(j)) = Identity(Fields(csv_rows[k]))
C20_ExactMatchDedup ==
    InParse => \A k \in Read : verdicts[k] = "duplicate" => HasAcceptedTwin(k)

====
